---- MODULE Spec2Model ----
(***************************************************************************)
(* Cugrad: a scalar reverse-mode automatic-differentiation engine          *)
(* (src/main.cpp).  The heap of Value objects is a sequence; a shared_ptr  *)
(* is the index of the object it points to, so pointer equality is index   *)
(* equality.  A double is an extended rational <<n, d>>:                   *)
(*     finite non-zero  n/d   (d > 0, lowest terms)                        *)
(*     +0.0  <<0, 1>>     -0.0  <<0, -1>>                                  *)
(*     +inf  <<1, 0>>     -inf  <<-1, 0>>      NaN  <<0, 0>>               *)
(* Arithmetic on finite values is exact (no rounding, no overflow); the    *)
(* IEEE-754 rules for zeros, infinities and NaN are kept.                  *)
(***************************************************************************)
EXTENDS Integers, Sequences, FiniteSets, TLC

VARIABLES heap, pc, self, stack, visited, topo, it, ran, pre, calls

vars == <<heap, pc, self, stack, visited, topo, it, ran, pre, calls>>

(***************************************************************************)
(* Bounds of the model.                                                    *)
(***************************************************************************)
\* the number of calls (builders and backward()) the driver makes: on the
\* whole interface, on the builders that install a closure, on a fixture
MaxCalls == 3
MaxCoreCalls == 4
MaxFixCalls == 2

(***************************************************************************)
(* double                                                                  *)
(***************************************************************************)
NaN == <<0, 0>>
PInf == <<1, 0>>
NInf == <<-1, 0>>
PZero == <<0, 1>>
NZero == <<0, -1>>
One == <<1, 1>>

Abs(i) == IF i < 0 THEN -i ELSE i

RECURSIVE GCD(_, _)
GCD(a, b) == IF b = 0 THEN a ELSE GCD(b, a % b)

RECURSIVE IPow(_, _)
IPow(b, e) == IF e = 0 THEN 1 ELSE b * IPow(b, e - 1)

\* the double nearest to the integer literal i
FromInt(i) == IF i = 0 THEN PZero ELSE <<i, 1>>

\* n/d in lowest terms, for n # 0 and d > 0
Rat(n, d) == LET g == GCD(Abs(n), d) IN <<n \div g, d \div g>>

IsNaN(v) == v = NaN
IsInf(v) == v[2] = 0 /\ v[1] # 0
IsZero(v) == v[1] = 0 /\ v[2] # 0
IsFinite(v) == v[2] # 0

\* the sign bit as +1 or -1 (0 for NaN)
Sgn(v) == IF v[1] > 0 THEN 1 ELSE IF v[1] < 0 THEN -1 ELSE v[2]

\* a + b
FAdd(a, b) ==
    IF IsNaN(a) \/ IsNaN(b) THEN NaN
    ELSE IF IsInf(a) THEN (IF IsInf(b) /\ b # a THEN NaN ELSE a)
    ELSE IF IsInf(b) THEN b
    ELSE IF IsZero(a) /\ IsZero(b)
         THEN (IF a = NZero /\ b = NZero THEN NZero ELSE PZero)
    ELSE IF IsZero(a) THEN b
    ELSE IF IsZero(b) THEN a
    ELSE LET n == a[1] * b[2] + b[1] * a[2]
         IN  IF n = 0 THEN PZero ELSE Rat(n, a[2] * b[2])

\* a * b
FMul(a, b) ==
    IF IsNaN(a) \/ IsNaN(b) THEN NaN
    ELSE IF (IsInf(a) /\ IsZero(b)) \/ (IsZero(a) /\ IsInf(b)) THEN NaN
    ELSE LET s == Sgn(a) * Sgn(b)
         IN  IF IsInf(a) \/ IsInf(b) THEN <<s, 0>>
             ELSE IF IsZero(a) \/ IsZero(b) THEN <<0, s>>
             ELSE Rat(a[1] * b[1], a[2] * b[2])

\* a / b
FDiv(a, b) ==
    IF IsNaN(a) \/ IsNaN(b) THEN NaN
    ELSE IF (IsInf(a) /\ IsInf(b)) \/ (IsZero(a) /\ IsZero(b)) THEN NaN
    ELSE LET s == Sgn(a) * Sgn(b)
         IN  IF IsInf(a) \/ IsZero(b) THEN <<s, 0>>
             ELSE IF IsZero(a) \/ IsInf(b) THEN <<0, s>>
             ELSE Rat(s * Abs(a[1]) * b[2], a[2] * Abs(b[1]))

\* a - b
FSub(a, b) == FAdd(a, <<-b[1], IF IsZero(b) THEN -b[2] ELSE b[2]>>)

\* std::pow(x, k) for an exponent k that holds an integer
FPow(x, k) ==
    IF k = 0 THEN One
    ELSE IF IsNaN(x) THEN NaN
    ELSE LET s == IF k % 2 = 1 THEN Sgn(x) ELSE 1
         IN  IF IsZero(x) THEN (IF k < 0 THEN <<s, 0>> ELSE <<0, s>>)
             ELSE IF IsInf(x) THEN (IF k < 0 THEN <<0, s>> ELSE <<s, 0>>)
             ELSE IF k > 0 THEN <<IPow(x[1], k), IPow(x[2], k)>>
             ELSE <<s * IPow(x[2], -k), IPow(Abs(x[1]), -k)>>

\* the arguments at which std::exp and std::tanh return a value this model
\* can hold exactly; exp and tanh are applied to nodes with such values only
Exact(x) == IsZero(x) \/ ~IsFinite(x)

\* std::exp(x), for Exact(x)
FExp(x) ==
    IF IsNaN(x) THEN NaN
    ELSE IF x = PInf THEN PInf
    ELSE IF x = NInf THEN PZero
    ELSE One

\* std::tanh(x), for Exact(x)
FTanh(x) ==
    IF IsNaN(x) THEN NaN
    ELSE IF IsInf(x) THEN <<Sgn(x), 1>>
    ELSE x

\* the values the driver gives its leaves, the doubles it passes where a
\* builder takes a double operand, and the exponents it passes to pow
Leaves == {FromInt(0), FromInt(2), FromInt(-1)}
Doubles == {FromInt(2), FromInt(-3)}
Exponents == {-1, 0, 2}

(***************************************************************************)
(* class Value and the operation builders.  Each builder maps the heap to  *)
(* the heap after the call; the object it returns is the last one.         *)
(***************************************************************************)
Nodes(h) == 1..Len(h)

\* Value::Value(val, children, op): grad = 0, _backward = [](){}, the
\* builders then install the closure that op and k stand for
Value(h, val, children, op, k) ==
    Append(h, [data |-> val, grad |-> PZero, prev |-> children, op |-> op, k |-> k])

\* operator+ that also hands the operands a gradient when it builds
plusVV_eager(h, s, o) ==
    Value([h EXCEPT ![s].grad = FAdd(@, One), ![o].grad = FAdd(@, One)],
          FAdd(h[s].data, h[o].data), <<s, o>>, "+", 0)

\* operator+(Value, Value)
plusVV(h, s, o) == Value(h, FAdd(h[s].data, h[o].data), <<s, o>>, "+", 0)

\* operator+(Value, double)
plusVD(h, s, c) ==
    LET h1 == Value(h, c, <<>>, "", 0) IN plusVV(h1, s, Len(h1))

\* operator+(double, Value)
plusDV(h, c, o) ==
    LET h1 == Value(h, c, <<>>, "", 0) IN plusVV(h1, Len(h1), o)

\* operator*(Value, Value)
timesVV(h, s, o) == Value(h, FMul(h[s].data, h[o].data), <<s, o>>, "*", 0)

\* operator*(Value, double)
timesVD(h, s, c) ==
    LET h1 == Value(h, c, <<>>, "", 0) IN timesVV(h1, s, Len(h1))

\* operator*(double, Value)
timesDV(h, c, o) ==
    LET h1 == Value(h, c, <<>>, "", 0) IN timesVV(h1, Len(h1), o)

\* pow(Value, double)
pow(h, s, k) == Value(h, FPow(h[s].data, k), <<s>>, "**", k)

\* operator/(Value, Value)
divVV(h, s, o) ==
    LET h1 == pow(h, o, -1) IN timesVV(h1, s, Len(h1))

\* operator/(Value, double)
divVD(h, s, c) == timesVD(h, s, FDiv(One, c))

\* operator/(double, Value)
divDV(h, c, o) ==
    LET h1 == Value(h, c, <<>>, "", 0)
        h2 == pow(h1, o, -1)
    IN  timesVV(h2, Len(h1), Len(h2))

\* operator-(Value)
negate(h, s) == timesVD(h, s, FromInt(-1))

\* operator-(Value, Value)
minusVV(h, s, o) ==
    LET h1 == negate(h, o) IN plusVV(h1, s, Len(h1))

\* operator-(Value, double)
minusVD(h, s, c) ==
    LET h1 == Value(h, c, <<>>, "", 0)
        h2 == negate(h1, Len(h1))
    IN  plusVV(h2, s, Len(h2))

\* operator-(double, Value)
minusDV(h, c, o) ==
    LET h1 == Value(h, c, <<>>, "", 0)
        h2 == negate(h1, o)
    IN  plusVV(h2, Len(h1), Len(h2))

\* exp(Value)
exp(h, s) == Value(h, FExp(h[s].data), <<s>>, "exp", 0)

\* tanh(Value)
tanh(h, s) == Value(h, FTanh(h[s].data), <<s>>, "tanh", 0)

\* p->grad = c
Assign(h, p, c) == [h EXCEPT ![p].grad = c]

(***************************************************************************)
(* The closures.  p->grad += c                                             *)
(***************************************************************************)
Accumulate(h, p, c) == [h EXCEPT ![p].grad = FAdd(@, c)]

\* a closure of operator+ that leaves out the second operand
plus_backward_first(h, out) ==
    [h EXCEPT ![h[out].prev[1]].grad = FAdd(@, FMul(One, h[out].grad))]

\* the closure operator+ installs
plus_backward(h, out) ==
    LET h1 == Accumulate(h, h[out].prev[1], FMul(One, h[out].grad))
    IN  Accumulate(h1, h[out].prev[2], FMul(One, h1[out].grad))

\* a closure of operator* with both sums taken from the gradients it found
times_backward_snapshot(h, out) ==
    LET s == h[out].prev[1]
        o == h[out].prev[2]
    IN  [h EXCEPT ![s].grad = FAdd(h[s].grad, FMul(h[o].data, h[out].grad)),
                  ![o].grad = FAdd(h[o].grad, FMul(h[s].data, h[out].grad))]

\* the closure operator* installs
times_backward(h, out) ==
    LET s == h[out].prev[1]
        o == h[out].prev[2]
        h1 == Accumulate(h, s, FMul(h[o].data, h[out].grad))
    IN  Accumulate(h1, o, FMul(h1[s].data, h1[out].grad))

\* a closure of pow with the exponent of the derivative not lowered
pow_backward_same_exponent(h, out) ==
    LET s == h[out].prev[1]
        exponent == h[out].k
        derivative == FMul(FromInt(exponent), FPow(h[s].data, exponent))
    IN  [h EXCEPT ![s].grad = FAdd(@, FMul(derivative, h[out].grad))]

\* the closure pow installs; exponent is the captured double
pow_backward(h, out) ==
    LET s == h[out].prev[1]
        exponent == h[out].k
        derivative == FMul(FromInt(exponent), FPow(h[s].data, exponent - 1))
    IN  Accumulate(h, s, FMul(derivative, h[out].grad))

\* the closure exp installs
exp_backward(h, out) ==
    Accumulate(h, h[out].prev[1], FMul(h[out].data, h[out].grad))

\* the closure tanh installs; data is the captured forward value
tanh_backward(h, out) ==
    LET data == h[out].data
    IN  Accumulate(h, h[out].prev[1],
                   FMul(FSub(One, FMul(data, data)), h[out].grad))

\* (*it)->_backward(): the closure the object holds; a leaf holds [](){}
backward_rule(h, out) ==
    CASE h[out].op = "+" -> plus_backward(h, out)
      [] h[out].op = "*" -> times_backward(h, out)
      [] h[out].op = "**" -> pow_backward(h, out)
      [] h[out].op = "exp" -> exp_backward(h, out)
      [] h[out].op = "tanh" -> tanh_backward(h, out)
      [] OTHER -> h

(***************************************************************************)
(* Value::backward(), one step per statement.  stack holds the active      *)
(* calls of build_topo: v is the argument and i the position of the loop   *)
(* over v->_prev (0 before the visited check).                             *)
(*   pre and ran record history: the gradients at the call and the objects *)
(*   whose closure this call has invoked so far.  calls is the number of   *)
(*   calls the driver has left.                                            *)
(***************************************************************************)
\* a visited check that compares the values the objects hold
seen_by_value(vis, v) == \E j \in 1..Len(vis) : heap[vis[j]].data = heap[v].data

\* for (auto& x : visited) if (x == v) return;
seen(vis, v) == \E j \in 1..Len(vis) : vis[j] = v

\* grad += 1.0
seed_add(h, n) == [h EXCEPT ![n].grad = FAdd(@, One)]

\* grad = 1.0
seed(h, n) == [h EXCEPT ![n].grad = One]

\* *it of a forward iterator
deref_forward(t, i) == t[Len(t) + 1 - i]

\* *it of the reverse iterator that has it elements of topo left to walk
deref(t, i) == t[i]

\* the loop over v->_prev stays at the same child
next_child_stuck(i) == i

\* the loop over v->_prev moves to the next child
next_child(i) == i + 1

Top == stack[Len(stack)]
Pop == SubSeq(stack, 1, Len(stack) - 1)
\* no call is running and the driver has a call left
Idle == pc \in {"idle", "done"} /\ calls > 0

\* the program starts: no object exists
Start(n) ==
    /\ heap = <<>>
    /\ pc = "idle"
    /\ self = 0
    /\ stack = <<>>
    /\ visited = <<>>
    /\ topo = <<>>
    /\ it = 0
    /\ ran = <<>>
    /\ pre = <<>>
    /\ calls = n

Init == Start(MaxCalls)

\* a builder returns: the heap is h, and the locals of the last backward()
\* are gone
Built(h) ==
    /\ heap' = h
    /\ pc' = "idle"
    /\ self' = 0
    /\ stack' = <<>>
    /\ visited' = <<>>
    /\ topo' = <<>>
    /\ it' = 0
    /\ ran' = <<>>
    /\ pre' = <<>>
    /\ calls' = calls - 1

Leaf == Idle /\ \E c \in Leaves : Built(Value(heap, c, <<>>, "", 0))
PlusVV == Idle /\ \E s, o \in Nodes(heap) : Built(plusVV(heap, s, o))
PlusVD == Idle /\ \E s \in Nodes(heap), c \in Doubles : Built(plusVD(heap, s, c))
PlusDV == Idle /\ \E c \in Doubles, o \in Nodes(heap) : Built(plusDV(heap, c, o))
TimesVV == Idle /\ \E s, o \in Nodes(heap) : Built(timesVV(heap, s, o))
TimesVD == Idle /\ \E s \in Nodes(heap), c \in Doubles : Built(timesVD(heap, s, c))
TimesDV == Idle /\ \E c \in Doubles, o \in Nodes(heap) : Built(timesDV(heap, c, o))
Pow == Idle /\ \E s \in Nodes(heap), k \in Exponents : Built(pow(heap, s, k))
DivVV == Idle /\ \E s, o \in Nodes(heap) : Built(divVV(heap, s, o))
DivVD == Idle /\ \E s \in Nodes(heap), c \in Doubles : Built(divVD(heap, s, c))
DivDV == Idle /\ \E c \in Doubles, o \in Nodes(heap) : Built(divDV(heap, c, o))
Negate == Idle /\ \E s \in Nodes(heap) : Built(negate(heap, s))
MinusVV == Idle /\ \E s, o \in Nodes(heap) : Built(minusVV(heap, s, o))
MinusVD == Idle /\ \E s \in Nodes(heap), c \in Doubles : Built(minusVD(heap, s, c))
MinusDV == Idle /\ \E c \in Doubles, o \in Nodes(heap) : Built(minusDV(heap, c, o))
Exp == Idle /\ \E s \in Nodes(heap) : Exact(heap[s].data) /\ Built(exp(heap, s))
Tanh == Idle /\ \E s \in Nodes(heap) : Exact(heap[s].data) /\ Built(tanh(heap, s))

\* n->backward() is called: the locals are empty and build_topo(n) starts
backward_call ==
    \E n \in Nodes(heap) :
        /\ Idle
        /\ pc' = "topo"
        /\ self' = n
        /\ stack' = <<[v |-> n, i |-> 0]>>
        /\ visited' = <<>>
        /\ topo' = <<>>
        /\ it' = 0
        /\ ran' = <<>>
        /\ pre' = [m \in Nodes(heap) |-> heap[m].grad]
        /\ calls' = calls - 1
        /\ UNCHANGED heap

\* build_topo(v): v is in visited, return
build_topo_return ==
    /\ pc = "topo" /\ stack # <<>>
    /\ Top.i = 0
    /\ seen(visited, Top.v)
    /\ stack' = Pop
    /\ UNCHANGED <<heap, pc, self, visited, topo, it, ran, pre, calls>>

\* build_topo(v): v is not in visited, visited.push_back(v)
build_topo_visit ==
    /\ pc = "topo" /\ stack # <<>>
    /\ Top.i = 0
    /\ ~seen(visited, Top.v)
    /\ visited' = Append(visited, Top.v)
    /\ stack' = [stack EXCEPT ![Len(stack)].i = 1]
    /\ UNCHANGED <<heap, pc, self, topo, it, ran, pre, calls>>

\* build_topo(v): build_topo(child) for the next child of v
build_topo_child ==
    /\ pc = "topo" /\ stack # <<>>
    /\ Top.i \in 1..Len(heap[Top.v].prev)
    /\ stack' = Append([stack EXCEPT ![Len(stack)].i = next_child(@)],
                       [v |-> heap[Top.v].prev[Top.i], i |-> 0])
    /\ UNCHANGED <<heap, pc, self, visited, topo, it, ran, pre, calls>>

\* build_topo(v): the loop is over, topo.push_back(v) and return
build_topo_push_back ==
    /\ pc = "topo" /\ stack # <<>>
    /\ Top.i > Len(heap[Top.v].prev)
    /\ topo' = Append(topo, Top.v)
    /\ stack' = Pop
    /\ UNCHANGED <<heap, pc, self, visited, it, ran, pre, calls>>

\* build_topo(shared_from_this()) has returned: grad = 1.0, it = topo.rbegin()
backward_seed ==
    /\ pc = "topo" /\ stack = <<>>
    /\ heap' = seed(heap, self)
    /\ it' = Len(topo)
    /\ pc' = "replay"
    /\ UNCHANGED <<self, stack, visited, topo, ran, pre, calls>>

\* it != topo.rend(): (*it)->_backward(); ++it
backward_replay ==
    /\ pc = "replay" /\ it > 0
    /\ heap' = backward_rule(heap, deref(topo, it))
    /\ ran' = Append(ran, deref(topo, it))
    /\ it' = it - 1
    /\ UNCHANGED <<pc, self, stack, visited, topo, pre, calls>>

\* it == topo.rend(): backward() returns
backward_return ==
    /\ pc = "replay" /\ it = 0
    /\ pc' = "done"
    /\ UNCHANGED <<heap, self, stack, visited, topo, it, ran, pre, calls>>

\* a step of backward() after the call
Step ==
    \/ build_topo_return \/ build_topo_visit \/ build_topo_child
    \/ build_topo_push_back \/ backward_seed \/ backward_replay
    \/ backward_return

\* the whole interface
Next ==
    \/ Leaf \/ PlusVV \/ PlusVD \/ PlusDV \/ TimesVV \/ TimesVD \/ TimesDV
    \/ Pow \/ DivVV \/ DivVD \/ DivDV \/ Negate \/ MinusVV \/ MinusVD
    \/ MinusDV \/ Exp \/ Tanh
    \/ backward_call \/ build_topo_return \/ build_topo_visit
    \/ build_topo_child \/ build_topo_push_back \/ backward_seed
    \/ backward_replay \/ backward_return

Spec == Init /\ [][Next]_vars

\* backward() runs to its end once called: nothing else runs meanwhile
SpecLive == Init /\ [][Next]_vars /\ WF_vars(Step)

\* the builders that install a closure, and backward()
InitCore == Start(MaxCoreCalls)

NextCore ==
    \/ Leaf \/ PlusVV \/ TimesVV \/ Pow \/ Exp \/ Tanh
    \/ backward_call \/ build_topo_return \/ build_topo_visit
    \/ build_topo_child \/ build_topo_push_back \/ backward_seed
    \/ backward_replay \/ backward_return

SpecCore == InitCore /\ [][NextCore]_vars

(***************************************************************************)
(* The fixtures: the graph main() builds before it calls L->backward()     *)
(* (a = 1, b = 2, c = 3, f = 4, e = 5, d = 6, L = 7), and the diamond      *)
(* p = x * y, q = x + y, z = p * q over two leaves.                        *)
(***************************************************************************)
Canonical ==
    LET a == Value(<<>>, FromInt(2), <<>>, "", 0)
        b == Value(a, FromInt(-3), <<>>, "", 0)
        c == Value(b, FromInt(10), <<>>, "", 0)
        f == Value(c, FromInt(-2), <<>>, "", 0)
        e == timesVV(f, 1, 2)
        d == plusVV(e, 5, 3)
    IN  timesVV(d, 6, 4)

Diamond(x, y) ==
    LET hx == Value(<<>>, x, <<>>, "", 0)
        hy == Value(hx, y, <<>>, "", 0)
        p == timesVV(hy, 1, 2)
        q == plusVV(p, 1, 2)
    IN  timesVV(q, 3, 4)

InitFix ==
    /\ heap \in {Canonical} \cup {Diamond(x, y) : x, y \in Leaves}
    /\ pc = "idle"
    /\ self = 0
    /\ stack = <<>>
    /\ visited = <<>>
    /\ topo = <<>>
    /\ it = 0
    /\ ran = <<>>
    /\ pre = <<>>
    /\ calls = MaxFixCalls

NextFix ==
    \/ backward_call \/ build_topo_return \/ build_topo_visit
    \/ build_topo_child \/ build_topo_push_back \/ backward_seed
    \/ backward_replay \/ backward_return

SpecFix == InitFix /\ [][NextFix]_vars

(***************************************************************************)
(* What the properties are stated with.                                    *)
(***************************************************************************)
\* the objects reachable from n along _prev, n included
RECURSIVE Reach(_, _)
Reach(h, n) == {n} \cup UNION {Reach(h, h[n].prev[j]) : j \in 1..Len(h[n].prev)}

\* the uses of n as an operand by the objects reachable from out: <<c, j>>
\* when n is operand j of c
Uses(h, out, n) ==
    {u \in Reach(h, out) \X {1, 2} : u[2] <= Len(h[u[1]].prev) /\ h[u[1]].prev[u[2]] = n}

\* the partial derivative of the value of c by its operand j
Partial(h, c, j) ==
    CASE h[c].op = "+" -> One
      [] h[c].op = "*" -> h[h[c].prev[3 - j]].data
      [] h[c].op = "**" -> FMul(FromInt(h[c].k), FPow(h[h[c].prev[1]].data, h[c].k - 1))
      [] h[c].op = "exp" -> h[c].data
      [] h[c].op = "tanh" -> FSub(One, FMul(h[c].data, h[c].data))

\* init plus the second components of the pairs of T, in any order
RECURSIVE SumFrom(_, _)
SumFrom(init, T) ==
    IF T = {} THEN init
    ELSE LET e == CHOOSE e \in T : TRUE IN FAdd(SumFrom(init, T \ {e}), e[2])

\* d(out)/d(n): the sum over the paths from out to n of the product of the
\* partial derivatives along the path
RECURSIVE Derivative(_, _, _)
Derivative(h, out, n) ==
    IF n = out THEN One
    ELSE SumFrom(PZero, {<<u, FMul(Partial(h, u[1], u[2]), Derivative(h, out, u[1]))>> :
                         u \in Uses(h, out, n)})

\* a == b on doubles
FEq(a, b) == ~IsNaN(a) /\ ~IsNaN(b) /\ (a = b \/ (IsZero(a) /\ IsZero(b)))

\* a and b are the same double, up to the sign of a zero
Same(a, b) == a = b \/ (IsZero(a) /\ IsZero(b))

Count(q, n) == Cardinality({j \in 1..Len(q) : q[j] = n})

Done == pc = "done"
Fresh == \A m \in DOMAIN pre : pre[m] = PZero
Shape(h) == [n \in Nodes(h) |-> <<h[n].data, h[n].prev, h[n].op>>]
Grads(h) == [n \in Nodes(h) |-> h[n].grad]

\* out is built from leaves with add, multiply and power only
AddMulPow(h, out) == \A c \in Reach(h, out) : h[c].op \in {"", "+", "*", "**"}

\* every value and every partial derivative under out is a finite number
Regular(h, out) ==
    \A c \in Reach(h, out) :
        /\ IsFinite(h[c].data)
        /\ \A j \in 1..Len(h[c].prev) : IsFinite(Partial(h, c, j))

GradientsExact ==
    \A n \in Reach(heap, self) :
        IsFinite(heap[n].grad) /\ FEq(heap[n].grad, Derivative(heap, self, n))

\* C1 as claimed: on a graph of add, multiply and power with every gradient 0
\* before the call, out.backward() leaves in every node reachable from out
\* the exact partial derivative d(out)/d(node).
C1_AsClaimed == (Done /\ Fresh /\ AddMulPow(heap, self)) => GradientsExact

\* C1 as amended: the same, for the graphs in which every value and every
\* local partial derivative under out is finite (no power node raises 0 to
\* an exponent below 1).
C1_ChainRule ==
    (Done /\ Fresh /\ AddMulPow(heap, self) /\ Regular(heap, self)) => GradientsExact

\* x^3 built as (x * x) * x has been differentiated
C1_Witness ==
    /\ Done /\ Fresh /\ Len(heap) = 3 /\ self = 3
    /\ heap[1].data = FromInt(2)
    /\ heap[2].op = "*" /\ heap[2].prev = <<1, 1>>
    /\ heap[3].op = "*" /\ heap[3].prev = <<2, 1>>
    /\ heap[1].grad = FromInt(12)

\* C2: on the graph of main(), built with every gradient 0, one
\* L.backward() ends with L.value = -8, L.gradient = 1, f.gradient = 4,
\* d.gradient = -2, e.gradient = -2, c.gradient = -2, b.gradient = -4 and
\* a.gradient = 6.
C2_Canonical ==
    (Done /\ Fresh /\ Shape(heap) = Shape(Canonical) /\ self = 7) =>
        /\ heap[7].data = FromInt(-8)
        /\ Grads(heap) = <<FromInt(6), FromInt(-4), FromInt(-2), FromInt(4),
                           FromInt(-2), FromInt(-2), FromInt(1)>>

\* L.backward() has returned on the fresh graph of main()
C2_Witness == Done /\ Fresh /\ Shape(heap) = Shape(Canonical) /\ self = 7

\* C3: an object that is both operands of one operation gets both
\* contributions: after y.backward() on y = x + x with x.gradient 0 before,
\* x.gradient = 2; on y = x * x, x.gradient = 2 * x.value (as doubles, a
\* zero of either sign being 0); and x is put in the order, and its closure
\* invoked, once.
C3_BothOperands ==
    \A x \in Nodes(heap) :
        (Done /\ heap[self].prev = <<x, x>> /\ pre[x] = PZero) =>
            /\ heap[self].op = "+" => heap[x].grad = FromInt(2)
            /\ heap[self].op = "*" => Same(heap[x].grad, FMul(FromInt(2), heap[x].data))
            /\ Count(topo, x) = 1
            /\ Count(ran, x) = 1

\* y.backward() has returned on y = x + x, and on y = x * x with x = 2
C3_WitnessAdd ==
    Done /\ Len(heap) = 2 /\ self = 2 /\ heap[2].op = "+" /\ heap[2].prev = <<1, 1>>
         /\ pre[1] = PZero /\ heap[1].grad = FromInt(2)

C3_Witness ==
    Done /\ Len(heap) = 2 /\ self = 2 /\ heap[2].op = "*" /\ heap[2].prev = <<1, 1>>
         /\ pre[1] = PZero /\ heap[1].data = FromInt(2) /\ heap[1].grad = FromInt(4)

\* C4: when out.backward() returns, out.gradient is 1, whatever the graph
\* and whatever the gradients were before the call.
C4_Seed == Done => heap[self].grad = One

\* backward() has returned on an object whose gradient an earlier call on
\* another object had left at 2
C4_Witness ==
    Done /\ pre[self] = FromInt(2) /\ heap[self].grad = One /\ Len(heap) > 1

\* C5: a later backward() resets no gradient: out.gradient is 1 again, and
\* every other gradient is its value before the call plus what the closures
\* of its consumers under out added, each consumer adding with the gradient
\* it has at the end of the pass; an object not under out keeps its
\* gradient.  A second L.backward() on the graph of main() leaves
\* d.gradient = -4 and f.gradient = 8.
C5_Accumulates ==
    Done =>
        /\ heap[self].grad = One
        /\ \A n \in Nodes(heap) \ {self} :
               heap[n].grad =
                   SumFrom(pre[n], {<<u, FMul(Partial(heap, u[1], u[2]), heap[u[1]].grad)>> :
                                    u \in Uses(heap, self, n)})
        /\ (/\ Shape(heap) = Shape(Canonical)
            /\ self = 7
            /\ pre = <<FromInt(6), FromInt(-4), FromInt(-2), FromInt(4),
                       FromInt(-2), FromInt(-2), FromInt(1)>>)
           => heap[6].grad = FromInt(-4) /\ heap[4].grad = FromInt(8)

\* the second L.backward() has returned on the graph of main()
C5_Witness ==
    /\ Done /\ Shape(heap) = Shape(Canonical) /\ self = 7
    /\ pre = <<FromInt(6), FromInt(-4), FromInt(-2), FromInt(4),
               FromInt(-2), FromInt(-2), FromInt(1)>>
    /\ heap[6].grad = FromInt(-4)

\* C6: in one backward() every object under out is put in the order once
\* and its closure is invoked once, no other object is, also on a diamond
\* and also when distinct objects hold equal values.
C6_ExactlyOnce ==
    /\ \A n \in Nodes(heap) :
           /\ Count(visited, n) <= 1 /\ Count(topo, n) <= 1 /\ Count(ran, n) <= 1
           /\ (self = 0 \/ n \notin Reach(heap, self)) =>
                  Count(visited, n) + Count(topo, n) + Count(ran, n) = 0
    /\ pc \in {"replay", "done"} =>
           \A n \in Reach(heap, self) : Count(topo, n) = 1
    /\ Done => \A n \in Reach(heap, self) : Count(ran, n) = 1

\* z.backward() has returned on the diamond whose leaves hold equal values
C6_Witness ==
    /\ Done /\ Len(heap) = 5 /\ self = 5
    /\ heap[1].data = heap[2].data /\ heap[3].data = heap[4].data
    /\ heap[5].prev = <<3, 4>> /\ heap[3].prev = <<1, 2>> /\ heap[4].prev = <<1, 2>>
    /\ Len(ran) = 5

\* C9: the order holds every object after all its parents, the replay
\* walks it from the back, and so a closure runs only after the closures of
\* all consumers of its object under out have run: no closure adds to a
\* gradient that its owner's closure has already read.
C9_ReverseTopological ==
    /\ \A j \in 1..Len(topo) :
           \A i \in 1..Len(heap[topo[j]].prev) :
               \E m \in 1..(j - 1) : topo[m] = heap[topo[j]].prev[i]
    /\ \A j \in 1..Len(ran) : ran[j] = topo[Len(topo) + 1 - j]
    /\ \A j \in 1..Len(ran) :
           /\ \A u \in Uses(heap, self, ran[j]) : \E m \in 1..(j - 1) : ran[m] = u[1]
           /\ \A i \in 1..Len(heap[ran[j]].prev) :
                  \A m \in 1..j : ran[m] # heap[ran[j]].prev[i]

\* backward() has returned on a graph in which an object has two consumers,
\* one of them an operand of the other
C9_Witness ==
    /\ Done /\ Len(heap) = 3 /\ self = 3
    /\ heap[2].prev = <<1, 1>> /\ heap[3].prev = <<1, 2>>
    /\ ran = <<3, 2, 1>>

\* the steps of the builders: they alone use up a call and end idle
BuilderReturns == calls' < calls /\ pc' = "idle"

\* C7: a builder changes no object that existed before the call: value,
\* gradient, parents and closure of each stay, and each object it adds has
\* gradient 0.
C7_BuildersFrame ==
    [][BuilderReturns =>
          /\ Len(heap') > Len(heap)
          /\ \A n \in Nodes(heap) : heap'[n] = heap[n]
          /\ \A n \in Nodes(heap') \ Nodes(heap) : heap'[n].grad = PZero]_vars

\* a builder has run on an operand that holds a gradient from backward()
C7_Witness ==
    /\ pc = "idle" /\ Len(heap) > 1
    /\ heap[Len(heap)].prev # <<>>
    /\ heap[heap[Len(heap)].prev[1]].grad # PZero
    /\ heap[Len(heap)].grad = PZero

Running == pc \in {"topo", "replay"}

\* the builders give an object at most two parents
MaxParents == 2

\* no object is its own ancestor: the parents of an object, at most two,
\* were built before it
Acyclic ==
    \A n \in Nodes(heap) :
        /\ Len(heap[n].prev) <= MaxParents
        /\ \A j \in 1..Len(heap[n].prev) : heap[n].prev[j] \in 1..(n - 1)

\* what an active call of build_topo has left to do: 1 before its visited
\* check, then 1 and 2 for each child it has not recursed into
FrameWork(f) ==
    IF f.i = 0 THEN 1 ELSE 2 * (Len(heap[f.v].prev) + 1 - f.i) + 1

RECURSIVE StackWork(_)
StackWork(st) ==
    IF st = <<>> THEN 0 ELSE FrameWork(st[Len(st)]) + StackWork(SubSeq(st, 1, Len(st) - 1))

\* a bound on the number of steps the running backward() has left; an
\* object not yet in visited costs at most 2 * MaxParents + 2 steps
Measure ==
    CASE pc = "topo" ->
           Len(heap) + 2 + StackWork(stack)
             + (2 * MaxParents + 2) * (Len(heap) - Len(visited))
      [] pc = "replay" -> it + 1
      [] OTHER -> 0

\* the locals of a running backward() are in range, so that one of its
\* steps can be taken
CanStep ==
    /\ it \in 0..Len(topo)
    /\ \A j \in 1..Len(stack) :
           /\ stack[j].v \in Nodes(heap)
           /\ stack[j].i \in 0..(Len(heap[stack[j].v].prev) + 1)
    /\ \A j \in 1..Len(topo) : topo[j] \in Nodes(heap)
    /\ Len(visited) <= Len(heap)

\* C8: backward() terminates on every graph the builders produce: the
\* parent relation is acyclic, a running call always has a next step, and
\* every step lowers a natural number.
C8_Terminates ==
    /\ [](Acyclic /\ Measure \in Nat /\ (Running => CanStep))
    /\ [][Running => Measure' < Measure]_vars

\* C8 again, as a property of the behaviours in which a called backward()
\* keeps running: every call returns.
C8_Returns == Running ~> Done

\* backward() has returned on a graph built by subtraction, in which the
\* operand is reached along two paths
C8_Witness ==
    /\ Done /\ Len(heap) = 4 /\ self = 4
    /\ heap[4].op = "+" /\ heap[4].prev = <<1, 3>> /\ heap[3].prev = <<1, 2>>

\* an operand of a builder: the object at, or the double val
Node(at) == [node |-> TRUE, at |-> at, val |-> NaN]
Double(val) == [node |-> FALSE, at |-> 0, val |-> val]

\* n stands for the operand X in the heap h1 built from h0: X itself, or a
\* new leaf that holds the double X
Operand(h0, h1, n, X) ==
    IF X.node THEN n = X.at
    ELSE n > Len(h0) /\ h1[n].op = "" /\ h1[n].prev = <<>> /\ h1[n].data = X.val

\* h1 is h0 with X / Y built as multiply(X, power(Y, -1))
Quotient(h0, h1, X, Y) ==
    LET out == Len(h1) IN
    /\ out > Len(h0)
    /\ h1[out].op = "*" /\ Len(h1[out].prev) = 2
    /\ Operand(h0, h1, h1[out].prev[1], X)
    /\ LET w == h1[out].prev[2] IN
           /\ w > Len(h0)
           /\ h1[w].op = "**" /\ h1[w].k = -1 /\ Len(h1[w].prev) = 1
           /\ Operand(h0, h1, h1[w].prev[1], Y)
    /\ \A n \in Nodes(h1) \ Nodes(h0) : h1[n].op \in {"", "*", "**"}

\* C10: divide(x, y) builds multiply(x, power(y, -1)) for node/node,
\* node/double and double/node operands, a double operand being a new leaf
\* that holds that double.
C10_DivideIsTimesPow ==
    [][/\ \A s, o \in Nodes(heap) :
              (Idle /\ heap' = divVV(heap, s, o)) =>
                  Quotient(heap, heap', Node(s), Node(o))
       /\ \A s \in Nodes(heap), c \in Doubles :
              (Idle /\ heap' = divVD(heap, s, c)) =>
                  Quotient(heap, heap', Node(s), Double(c))
       /\ \A c \in Doubles, o \in Nodes(heap) :
              (Idle /\ heap' = divDV(heap, c, o)) =>
                  Quotient(heap, heap', Double(c), Node(o))]_vars

\* the node/node and double/node forms alone
C10_DivideByNode ==
    [][/\ \A s, o \in Nodes(heap) :
              (Idle /\ heap' = divVV(heap, s, o)) =>
                  Quotient(heap, heap', Node(s), Node(o))
       /\ \A c \in Doubles, o \in Nodes(heap) :
              (Idle /\ heap' = divDV(heap, c, o)) =>
                  Quotient(heap, heap', Double(c), Node(o))]_vars

====
